---- MODULE Spec2Model ----
(***************************************************************************)
(* Model of the SebType typing-session engine (scripts/typing.js, class    *)
(* TypingEngine).  Strings are sequences of one-character strings, time    *)
(* stamps are milliseconds as returned by Date.now().                      *)
(***************************************************************************)
EXTENDS Integers, Sequences, FiniteSets, TLC

VARIABLES
    timeLimit, mode, words, currentWordIndex, currentInput,
    startedAt, endedAt, started, finished, timeLeft,
    typedChars, correctChars, wordHistory, wpmHistory, lastTickAt,
    best, storage,
    historyInterval, historyDue,
    now, events,
    wordsPool, seedSize,
    uiTimer, uiDue, liveIntervals, hiddenInput, clearTimeouts,
    history, leaderboard, savedHistory, savedLeaders

engine == <<timeLimit, mode, words, currentWordIndex, currentInput,
            startedAt, endedAt, started, finished, timeLeft,
            typedChars, correctChars, wordHistory, wpmHistory, lastTickAt,
            best, storage, historyInterval, historyDue>>

\* the construction options the engine keeps (typing.js)
config == <<wordsPool, seedSize>>

\* the page around the engine (main.js): the countdown interval, the text field
\* and its deferred clears
page == <<uiTimer, uiDue, liveIntervals, hiddenInput, clearTimeouts>>

\* the run store (data.js)
dataStore == <<history, leaderboard, savedHistory, savedLeaders>>

vars == <<timeLimit, mode, words, currentWordIndex, currentInput,
          startedAt, endedAt, started, finished, timeLeft,
          typedChars, correctChars, wordHistory, wpmHistory, lastTickAt,
          best, storage, historyInterval, historyDue, now, events,
          wordsPool, seedSize,
          uiTimer, uiDue, liveIntervals, hiddenInput, clearTimeouts,
          history, leaderboard, savedHistory, savedLeaders>>

----------------------------------------------------------------------------
(* Bounds of the model *)

\* cap on typedChars: input that would take the counter past it is not offered
MaxTyped == 3
\* milliseconds by which the wall clock advances in one step
ClockStepMs == 500
\* number of clock steps in a behaviour
MaxClockSteps == 2
\* largest counter value and largest number of elapsed seconds for which the
\* metric queries are evaluated on their own
MetricChars == 3
MetricSeconds == 24

\* time limits offered at construction and to setTimeLimit (seconds)
TimeLimits == {1, 2}

(* Program constants *)
tickIntervalMs == 1000
HistoryCap == 120
WarmPoints == 5

\* JavaScript null (timestamps are positive)
NULL == 0 - 1

----------------------------------------------------------------------------
(* Pure helpers *)

\* JavaScript truthiness of a nullable timestamp: null and 0 are falsy
Falsy(t) == t = NULL \/ t = 0

Min(a, b) == IF a < b THEN a ELSE b
Max(a, b) == IF a > b THEN a ELSE b

EndsWithSpace(v) == Len(v) > 0 /\ v[Len(v)] = " "

RECURSIVE TrimStart(_)
TrimStart(v) == IF Len(v) > 0 /\ v[1] = " " THEN TrimStart(Tail(v)) ELSE v

RECURSIVE TrimEnd(_)
TrimEnd(v) ==
    IF EndsWithSpace(v) THEN TrimEnd(SubSeq(v, 1, Len(v) - 1)) ELSE v

\* String.prototype.trim
Trim(v) == TrimEnd(TrimStart(v))

\* Math.floor((b - a) / 1000) for timestamps in milliseconds
FloorSeconds(a, b) == (b - a) \div 1000

\* typing.js stddev is used by getConsistency only; not modelled here

----------------------------------------------------------------------------
(* Number arithmetic of the metric queries *)

\* A JS Number (IEEE 754 binary64) with a value >= 0 is held as [m, e]: the
\* 53-bit significand m as three limbs <<m1, m2, m3>> of LimbBits bits, most
\* significant first, and the exponent e of its last bit, the value being
\* m * 2^e; zero has the significand <<0, 0, 0>>.
LimbBits == 24
Limb == 2^LimbBits
SignificandBits == 53

BigZero == <<0, 0, 0>>

\* carries (or borrows) propagated from the low limb up
BigNorm(x) ==
    LET t == x[2] + (x[3] \div Limb)
    IN  <<x[1] + (t \div Limb), t % Limb, x[3] % Limb>>

BigOfInt(n) == BigNorm(<<0, 0, n>>)
BigToInt(x) == (x[1] * Limb + x[2]) * Limb + x[3]
BigGeq(x, y) ==
    \/ x[1] > y[1]
    \/ x[1] = y[1] /\ x[2] > y[2]
    \/ x[1] = y[1] /\ x[2] = y[2] /\ x[3] >= y[3]
BigSub(x, y) == BigNorm(<<x[1] - y[1], x[2] - y[2], x[3] - y[3]>>)
BigTimes(x, k) == BigNorm(<<k * x[1], k * x[2], k * x[3]>>)
BigOdd(x) == x[3] % 2 = 1

\* the number of bits of n > 0 below 2^31, and of a limb value
BitLength(n) == Cardinality({ k \in 0..30 : 2^k <= n })
BigBitLength(x) ==
    IF x[1] > 0 THEN 2 * LimbBits + BitLength(x[1])
    ELSE IF x[2] > 0 THEN LimbBits + BitLength(x[2])
    ELSE BitLength(x[3])

\* x shifted by whole limbs
BigLimbsUp(x, a) == IF a = 0 THEN x ELSE IF a = 1 THEN <<x[2], x[3], 0>> ELSE <<x[3], 0, 0>>
BigLimbsDown(x, a) == IF a = 0 THEN x ELSE IF a = 1 THEN <<0, x[1], x[2]>> ELSE <<0, 0, x[1]>>

\* x * 2^s, the bits above the top limb assumed empty, and floor(x / 2^s)
BigShl(x, s) ==
    LET b == s % LimbBits
        cut == 2^(LimbBits - b)
        y == <<(x[1] % cut) * 2^b + (x[2] \div cut),
               (x[2] % cut) * 2^b + (x[3] \div cut),
               (x[3] % cut) * 2^b>>
    IN  BigLimbsUp(y, s \div LimbBits)
BigShr(x, s) ==
    IF s >= 3 * LimbBits THEN BigZero
    ELSE LET b == s % LimbBits
             cut == 2^b
             up == 2^(LimbBits - b)
             y == BigLimbsDown(x, s \div LimbBits)
         IN  <<y[1] \div cut,
               (y[1] % cut) * up + (y[2] \div cut),
               (y[2] % cut) * up + (y[3] \div cut)>>

\* the 53-bit significand q at exponent e, moved to the next Number when up
NumNext(q, e, up) ==
    IF ~up THEN [m |-> q, e |-> e]
    ELSE LET n == BigNorm(<<q[1], q[2], q[3] + 1>>)
         IN  IF BigBitLength(n) > SignificandBits THEN [m |-> BigShr(n, 1), e |-> e + 1]
             ELSE [m |-> n, e |-> e]

\* m * 2^e for m > 0 of any length, rounded to 53 bits, ties to even
NumOfBig(m, e) ==
    LET len == BigBitLength(m)
    IN  IF len <= SignificandBits
        THEN [m |-> BigShl(m, SignificandBits - len), e |-> e - (SignificandBits - len)]
        ELSE LET s == len - SignificandBits
                 q == BigShr(m, s)
                 above == BigShr(m, s - 1)
                 half == BigOdd(above)
                 sticky == BigShl(above, s - 1) # m
             IN  NumNext(q, e + s, half /\ (sticky \/ BigOdd(q)))

\* an integer of the program as a Number
NumOfInt(n) == IF n = 0 THEN [m |-> BigZero, e |-> 0] ELSE NumOfBig(BigOfInt(n), 0)

\* long division continued for k steps from p = [q, r]: each step moves one
\* more quotient bit of r / d into q and doubles what is left of r; once
\* nothing is left the remaining bits are zero
DivChunk(p, d, k) ==
    IF p.r = BigZero THEN [q |-> BigShl(p.q, k), r |-> BigZero]
    ELSE LET st[i \in 0..k] ==
                 IF i = 0 THEN p
                 ELSE LET s == st[i - 1]
                      IN  IF BigGeq(s.r, d)
                          THEN [q |-> BigNorm(<<2 * s.q[1], 2 * s.q[2], 2 * s.q[3] + 1>>),
                                r |-> BigTimes(BigSub(s.r, d), 2)]
                          ELSE [q |-> BigTimes(s.q, 2), r |-> BigTimes(s.r, 2)]
         IN  st[k]

\* the 53 quotient bits of n / d in [1, 2), and twice the remainder left below
\* the last of them
DivSteps(n, d) ==
    DivChunk(DivChunk(DivChunk(DivChunk([q |-> BigZero, r |-> n], d, 14), d, 13), d, 13),
             d, SignificandBits - 40)

\* a / b for Numbers a >= 0 and b > 0: the exact quotient rounded to 53 bits,
\* ties to even
NumDiv(a, b) ==
    IF a.m = BigZero THEN a
    ELSE LET low == ~BigGeq(a.m, b.m)
             n == IF low THEN BigTimes(a.m, 2) ELSE a.m
             s == IF low THEN 1 ELSE 0
             \* qr.r is twice the remainder left below the last quotient bit
             qr == DivSteps(n, b.m)
             up == BigGeq(qr.r, b.m) /\ (qr.r # b.m \/ BigOdd(qr.q))
         IN  NumNext(qr.q, a.e - b.e - s - (SignificandBits - 1), up)

\* a * k for a Number a >= 0 and a small positive integer k
NumTimes(a, k) == IF a.m = BigZero THEN a ELSE NumOfBig(BigTimes(a.m, k), a.e)

\* Math.round(x) for a Number x >= 0 below 2^31: floor(x + 1/2)
MathRound(x) ==
    IF x.m = BigZero THEN 0
    ELSE IF x.e >= 0 THEN BigToInt(x.m) * 2^(x.e)
    ELSE (BigToInt(BigShr(x.m, (0 - x.e) - 1)) + 1) \div 2

----------------------------------------------------------------------------
(* Word generation *)

\* bounded sample of DEFAULT_WORDS, the pool used when opts.words is not given
DEFAULT_WORDS == << <<"a", "b">>, <<"a">> >>

\* opts.seedSize of the sessions below: one pass over the pool
OnePass == Len(DEFAULT_WORDS)

\* bounded sample of the tokens numbers mode can draw
NumberTokens == { <<"7">> }

\* bounded sample of sampleQuotes, split on spaces
SampleQuotes ==
    { << <<"T","o">>, <<"b","e">>, <<"o","r">>, <<"n","o","t">>, <<"t","o">>, <<"b","e">> >> }

IndexPermutations(s) ==
    { p \in [1..Len(s) -> 1..Len(s)] : \A i, j \in 1..Len(s) : p[i] = p[j] => i = j }

\* shuffleArray: any permutation of the pool
ShuffleArray(arr) == { [i \in 1..Len(arr) |-> arr[p[i]]] : p \in IndexPermutations(arr) }

\* while (result.length < count) result.push(...pool): the arrays the loop can
\* end with; a pass that adds nothing leaves the loop condition as it was,
\* so the loop never ends and there is no such array
RECURSIVE FillFrom(_, _, _)
FillFrom(result, pool, count) ==
    IF Len(result) >= count THEN { result }
    ELSE IF Len(result \o pool) = Len(result) THEN {}
    ELSE FillFrom(result \o pool, pool, count)

\* result.slice(0, count)
SliceTo(result, count) == SubSeq(result, 1, Min(Len(result), Max(count, 0)))

\* the default (english) branch of generateWords over the pool in force
RepeatPool(pool, count) ==
    UNION { { SliceTo(result, count) : result \in FillFrom(<<>>, shuffled, count) }
            : shuffled \in ShuffleArray(pool) }

\* quotes mode: whole quotes are appended, word by word, until count is reached
RECURSIVE QuoteFill(_, _)
QuoteFill(out, count) ==
    IF Len(out) >= count THEN {out}
    ELSE UNION { QuoteFill(out \o SubSeq(q, 1, Min(Len(q), count - Len(out))), count)
                 : q \in SampleQuotes }

\* generateWords: the word lists a call can return
GenerateWords(m, count) ==
    IF m = "numbers" THEN [1..count -> NumberTokens]
    ELSE IF m = "quotes" THEN QuoteFill(<<>>, count)
    ELSE RepeatPool(wordsPool, count)

----------------------------------------------------------------------------
(* Queries *)

\* getCurrentWord: words[currentWordIndex] || ''
GetCurrentWordAt(ws, idx) == IF idx + 1 \in DOMAIN ws THEN ws[idx + 1] ELSE <<>>
GetCurrentWord == GetCurrentWordAt(words, currentWordIndex)

\* getElapsedSeconds evaluated with the given start and end stamps at time t
ElapsedSeconds(sAt, eAt, t) ==
    IF Falsy(sAt) THEN 0
    ELSE IF ~Falsy(eAt) THEN FloorSeconds(sAt, eAt)
    ELSE FloorSeconds(sAt, t)

GetElapsedSeconds == ElapsedSeconds(startedAt, endedAt, now)

\* the literals 5 and 60 of getWPM and getRawSpeed
NumFive == NumOfInt(5)
NumSixty == NumOfInt(60)

\* Math.round((chars / 5) / minutes) with minutes = elapsed / 60: each quotient
\* is a Number division, rounded to 53 bits
NumWPM(chars, elapsed) ==
    MathRound(NumDiv(NumDiv(NumOfInt(chars), NumFive), NumDiv(NumOfInt(elapsed), NumSixty)))

\* the counters and whole seconds the bounds of the model allow
TableChars == 0..Max(MaxTyped, MetricChars)
TableSeconds == 1..MetricSeconds

\* NumWPM over those values: the model reads the metric from this table, so
\* that each value is computed once; an argument outside it is an evaluation
\* error, never a wrong value
WPMTable == [chars \in TableChars, elapsed \in TableSeconds |-> NumWPM(chars, elapsed)]

\* getWPM and getRawSpeed for the given counter: 0 when elapsed <= 0
WPM(chars, elapsed) == IF elapsed <= 0 THEN 0 ELSE WPMTable[chars, elapsed]

GetWPM == WPM(correctChars, GetElapsedSeconds)

\* getRawSpeed
GetRawSpeed == WPM(typedChars, GetElapsedSeconds)

\* Math.round((correctChars / typedChars) * 100)
NumAccuracy(correct, typed) ==
    MathRound(NumTimes(NumDiv(NumOfInt(correct), NumOfInt(typed)), 100))

\* NumAccuracy over the counters the bounds allow, read like WPMTable
AccuracyTable == [correct \in TableChars, typed \in TableChars \ {0} |->
                     NumAccuracy(correct, typed)]

\* getAccuracy: 100 when nothing was typed
Accuracy(correct, typed) == IF typed = 0 THEN 100 ELSE AccuracyTable[correct, typed]

GetAccuracy == Accuracy(correctChars, typedChars)

\* getCurrentWordState for a target word and the typed buffer
CharAt(s, i) == IF i \in DOMAIN s THEN s[i] ELSE ""

WordState(target, typed) ==
    [ word |-> target,
      typed |-> typed,
      chars |-> [i \in 1..Max(Len(target), Len(typed)) |->
                   [target |-> CharAt(target, i), typed |-> CharAt(typed, i),
                    correct |-> IF CharAt(typed, i) = "" THEN ""
                                ELSE IF CharAt(typed, i) = CharAt(target, i)
                                     THEN "true" ELSE "false"]],
      isComplete |-> typed = target,
      correctCount |-> Cardinality({ i \in 1..Max(Len(target), Len(typed)) :
                          CharAt(typed, i) # "" /\ CharAt(typed, i) = CharAt(target, i) }) ]

\* the notification onUpdateWordState(getCurrentWordState())
UpdateEvent(ws, idx, input) ==
    [name |-> "onUpdateWordState", payload |-> WordState(GetCurrentWordAt(ws, idx), input)]

StartEvent == [name |-> "onStart"]

----------------------------------------------------------------------------
(* Initial state: the constructor, which ends with resetTest() *)

ZeroBest == [wpm |-> 0, accuracy |-> 0, raw |-> 0]

\* mutant of WarmHistory: the seed samples are not zero
WarmHistoryOnes == [i \in 1..WarmPoints |-> 1]

\* for (let i = 0; i < 5; i++) this.wpmHistory.push(0)
WarmHistory == [i \in 1..WarmPoints |-> 0]

\* main.js before any event: no countdown interval, an empty text field
PageLoaded ==
    /\ uiTimer = FALSE
    /\ uiDue = NULL
    /\ liveIntervals = 0
    /\ hiddenInput = <<>>
    /\ clearTimeouts = 0

\* data.js loaded over an empty localStorage
EmptyStore ==
    /\ savedHistory = <<>>
    /\ savedLeaders = <<>>
    /\ history = savedHistory
    /\ leaderboard = savedLeaders

\* the state after construction with opts.timeLimit = limit, the default pool
\* and a seed size of one pass over it
InitWith(limit) ==
    /\ wordsPool = DEFAULT_WORDS
    /\ seedSize = OnePass
    /\ PageLoaded
    /\ EmptyStore
    /\ timeLimit = limit
    /\ mode = "english"
    /\ words \in GenerateWords("english", seedSize)
    /\ currentWordIndex = 0
    /\ currentInput = <<>>
    /\ startedAt = NULL
    /\ endedAt = NULL
    /\ started = FALSE
    /\ finished = FALSE
    /\ timeLeft = timeLimit
    /\ typedChars = 0
    /\ correctChars = 0
    /\ wordHistory = <<>>
    /\ wpmHistory = WarmHistory
    /\ now = 1000
    /\ lastTickAt = now
    /\ best = ZeroBest
    /\ storage = <<>>
    /\ historyInterval = FALSE
    /\ historyDue = NULL
    /\ events = <<>>

Init == \E limit \in TimeLimits : InitWith(limit)

----------------------------------------------------------------------------
(* resetTest, setMode, setTimeLimit *)

\* mutant of ResetTo: the sampling timer is left running
ResetKeepsTimer(m, limit) ==
    /\ words' \in GenerateWords(m, seedSize)
    /\ currentWordIndex' = 0
    /\ currentInput' = <<>>
    /\ startedAt' = NULL
    /\ endedAt' = NULL
    /\ started' = FALSE
    /\ finished' = FALSE
    /\ timeLeft' = limit
    /\ typedChars' = 0
    /\ correctChars' = 0
    /\ wordHistory' = <<>>
    /\ wpmHistory' = WarmHistory
    /\ lastTickAt' = now
    /\ events' = <<UpdateEvent(words', 0, <<>>)>>
    /\ UNCHANGED <<historyInterval, historyDue, best, storage, now>>

\* the assignments of resetTest with the given mode and limit in force
ResetFields(m, limit) ==
    /\ historyInterval' = FALSE
    /\ historyDue' = NULL
    /\ words' \in GenerateWords(m, seedSize)
    /\ currentWordIndex' = 0
    /\ currentInput' = <<>>
    /\ startedAt' = NULL
    /\ endedAt' = NULL
    /\ started' = FALSE
    /\ finished' = FALSE
    /\ timeLeft' = limit
    /\ typedChars' = 0
    /\ correctChars' = 0
    /\ wordHistory' = <<>>
    /\ wpmHistory' = WarmHistory
    /\ lastTickAt' = now
    /\ UNCHANGED <<best, storage, now>>

\* resetTest with the given mode and limit in force, and its notification
ResetTo(m, limit) ==
    /\ ResetFields(m, limit)
    /\ events' = <<UpdateEvent(words', 0, <<>>)>>

ResetTest ==
    /\ ResetTo(mode, timeLimit)
    /\ UNCHANGED <<mode, timeLimit>>

SetMode(m) ==
    /\ mode' = m
    /\ ResetTo(m, timeLimit)
    /\ UNCHANGED timeLimit

SetTimeLimit(sec) ==
    /\ timeLimit' = sec
    /\ ResetTo(mode, sec)
    /\ UNCHANGED mode

----------------------------------------------------------------------------
(* start *)

\* the assignments of start() past its guard
DoStart ==
    /\ started' = TRUE
    /\ startedAt' = now
    /\ endedAt' = NULL
    /\ historyInterval' = TRUE
    /\ historyDue' = now + tickIntervalMs

NoStart == UNCHANGED <<started, startedAt, endedAt, historyInterval, historyDue>>

\* if (this.started) return
StartReturnsEarly == started

Start ==
    IF StartReturnsEarly
    THEN /\ events' = <<>>
         /\ UNCHANGED <<engine, now>>
    ELSE /\ DoStart
         /\ events' = <<StartEvent>>
         /\ UNCHANGED <<timeLimit, mode, words, currentWordIndex, currentInput,
                        finished, timeLeft, typedChars, correctChars, wordHistory,
                        wpmHistory, lastTickAt, best, storage, now>>

----------------------------------------------------------------------------
(* History samples *)

\* mutant of AddHistoryPoint: at capacity the newest sample is dropped
AddHistoryPointDropNewest(h, wpm) ==
    IF Len(h) + 1 > HistoryCap THEN h ELSE Append(h, wpm)

\* _addHistoryPoint: push, then shift once the length exceeds the cap
AddHistoryPoint(h, wpm) ==
    LET pushed == Append(h, wpm)
    IN  IF Len(pushed) > HistoryCap THEN Tail(pushed) ELSE pushed

\* the setInterval callback of _startHistoryInterval
HistoryTimerFire ==
    /\ historyInterval
    /\ now >= historyDue
    /\ wpmHistory' = AddHistoryPoint(wpmHistory, GetWPM)
    /\ historyDue' = historyDue + tickIntervalMs
    /\ events' = <<>>
    /\ UNCHANGED <<timeLimit, mode, words, currentWordIndex, currentInput,
                   startedAt, endedAt, started, finished, timeLeft,
                   typedChars, correctChars, wordHistory, lastTickAt,
                   best, storage, historyInterval, now>>

----------------------------------------------------------------------------
(* finish *)

\* this.words[this.currentWordIndex], undefined past the end of words
Undefined == <<"undefined">>
WordAtIndex == IF currentWordIndex + 1 \in DOMAIN words
               THEN words[currentWordIndex + 1] ELSE Undefined

\* the entry finish() records for a partially typed word
\* mutant of PartialEntry: the unfinished word is given credit
PartialEntryCredited ==
    [word |-> WordAtIndex, typed |-> currentInput, correct |-> Len(currentInput),
     timeTaken |-> 0]

\* the wordHistory entry finish() records for an uncommitted buffer
PartialEntry == [word |-> WordAtIndex, typed |-> currentInput, correct |-> 0, timeTaken |-> 0]

\* the stats finish() computes once endedAt is set to the current time
FinalStats ==
    LET elapsed == ElapsedSeconds(startedAt, now, now)
    IN  [wpm |-> WPM(correctChars, elapsed),
         accuracy |-> GetAccuracy,
         raw |-> WPM(typedChars, elapsed)]

\* mutant of IsNewBest: a tie replaces the record
IsNewBestOrEqual(stats, b) == stats.wpm >= b.wpm

\* if (stats.wpm > this.best.wpm)
IsNewBest(stats, b) == stats.wpm > b.wpm

\* the body of finish() past its guard; ev holds the notifications already
\* delivered by the calling handler
DoFinish(ev) ==
    /\ finished' = TRUE
    /\ endedAt' = now
    /\ started' = FALSE
    /\ historyInterval' = FALSE
    /\ historyDue' = NULL
    /\ wordHistory' = IF Len(currentInput) > 0
                      THEN Append(wordHistory, PartialEntry) ELSE wordHistory
    /\ LET stats == FinalStats
       IN  /\ IF IsNewBest(stats, best)
              THEN /\ best' = stats
                   /\ storage' = <<stats>>
              ELSE UNCHANGED <<best, storage>>
           /\ events' = ev \o <<[name |-> "onFinish", payload |-> stats]>>

\* mutant of FinishReturnsEarly: finish() has no guard
FinishNeverReturnsEarly == FALSE

\* if (this.finished) return
FinishReturnsEarly == finished

Finish ==
    IF FinishReturnsEarly
    THEN /\ events' = <<>>
         /\ UNCHANGED <<engine, now>>
    ELSE /\ DoFinish(<<>>)
         /\ UNCHANGED <<timeLimit, mode, words, currentWordIndex, currentInput,
                        startedAt, timeLeft, typedChars, correctChars,
                        wpmHistory, lastTickAt, now>>

----------------------------------------------------------------------------
(* tick *)

\* if (!this.started || this.finished) return
TickReturnsEarly == ~started \/ finished

\* mutant of TimeLeftAt: the countdown stops at one second
TimeLeftAtStuck(limit, sAt, t) == Max(1, limit - FloorSeconds(sAt, t))

\* mutant of TimeLeftAt: the countdown runs one second ahead
TimeLeftAtEarly(limit, sAt, t) == Max(0, limit - FloorSeconds(sAt, t) - 1)

\* Math.max(0, this.timeLimit - Math.floor((now - this.startedAt) / 1000))
TimeLeftAt(limit, sAt, t) == Max(0, limit - FloorSeconds(sAt, t))

TickEvent(left, wpm) ==
    [name |-> "onTick",
     payload |-> [timeLeft |-> left, elapsed |-> FloorSeconds(startedAt, now), wpm |-> wpm]]

Tick ==
    IF TickReturnsEarly
    THEN /\ events' = <<>>
         /\ UNCHANGED <<engine, now>>
    ELSE LET left == TimeLeftAt(timeLimit, startedAt, now)
             wpm == GetWPM
         IN  /\ lastTickAt' = now
             /\ timeLeft' = left
             /\ wpmHistory' = AddHistoryPoint(wpmHistory, wpm)
             /\ IF left <= 0
                THEN DoFinish(<<TickEvent(left, wpm)>>)
                ELSE /\ events' = <<TickEvent(left, wpm)>>
                     /\ UNCHANGED <<finished, endedAt, started, historyInterval,
                                    historyDue, wordHistory, best, storage>>
             /\ UNCHANGED <<timeLimit, mode, words, currentWordIndex, currentInput,
                            startedAt, typedChars, correctChars, now>>

----------------------------------------------------------------------------
(* processInput, processKeystroke *)

\* mutant of InputIgnored: the finished check is missing
InputNeverIgnored == FALSE

\* if (this.finished) return
InputIgnored == finished

\* mutant of NeedsStart: typing does not start the test
NeedsStartNever == FALSE

\* if (!this.started) this.start()
NeedsStart == ~started

EnsureStarted == IF NeedsStart THEN DoStart ELSE NoStart
StartEvents == IF NeedsStart THEN <<StartEvent>> ELSE <<>>

\* mutant of TypedIncrement: the separator is not counted as typed
TypedIncrementNoSeparator(typed) == Len(typed)

\* typed.length + (this.spaceCountsAsChar ? 1 : 0)
TypedIncrement(typed) == Len(typed) + 1

\* the per-position comparison of a mismatched word
CountMatches(typed, target) ==
    Cardinality({ i \in 1..Min(Len(typed), Len(target)) : typed[i] = target[i] })

\* mutant of CorrectIncrement: an exact match gets no separator credit
CorrectIncrementNoSeparator(typed, target) == CountMatches(typed, target)

\* the credit a committed word adds to correctChars
CorrectIncrement(typed, target) ==
    IF typed = target THEN Len(target) + 1 ELSE CountMatches(typed, target)

\* the wordHistory entry of a committed word
CommitEntry(typed, target) ==
    IF typed = target
    THEN [word |-> target, typed |-> typed, correct |-> Len(target),
          perfect |-> TRUE, timeTaken |-> 0]
    ELSE [word |-> target, typed |-> typed, correct |-> CountMatches(typed, target),
          perfect |-> FALSE, timeTaken |-> 0]

\* mutant of TypedAfterInput: deletions are subtracted
TypedAfterInputSigned(tc, value, input) == tc + Len(value) - Len(input)

\* typedChars after a non-committing input: only growth of the buffer counts
TypedAfterInput(tc, value, input) ==
    LET delta == Len(value) - Len(input)
    IN  IF delta > 0 THEN tc + delta ELSE tc

\* processInput past the finished and started checks, entered with the buffer
\* `input` and the counter `tc` (processKeystroke changes both before it calls)
InputBody(value, input, tc, ev) ==
    IF EndsWithSpace(value)
    THEN LET typed == Trim(value)
             target == GetCurrentWord
         IN  /\ typedChars' = tc + TypedIncrement(typed)
             /\ correctChars' = correctChars + CorrectIncrement(typed, target)
             /\ wordHistory' = Append(wordHistory, CommitEntry(typed, target))
             /\ currentWordIndex' = currentWordIndex + 1
             /\ currentInput' = <<>>
             /\ events' = ev \o <<UpdateEvent(words, currentWordIndex + 1, <<>>)>>
    ELSE /\ typedChars' = TypedAfterInput(tc, value, input)
         /\ currentInput' = value
         /\ events' = ev \o <<UpdateEvent(words, currentWordIndex, value)>>
         /\ UNCHANGED <<correctChars, wordHistory, currentWordIndex>>

ProcessInput(value) ==
    IF InputIgnored
    THEN /\ events' = <<>>
         /\ UNCHANGED <<engine, now>>
    ELSE /\ EnsureStarted
         /\ InputBody(value, currentInput, typedChars, StartEvents)
         /\ UNCHANGED <<timeLimit, mode, words, finished, timeLeft, wpmHistory,
                        lastTickAt, best, storage, now>>

\* mutant of DropLast: nothing is removed
DropNone(s) == s

\* this.currentInput.slice(0, -1)
DropLast(s) == SubSeq(s, 1, Len(s) - 1)

ProcessKeystroke(ch) ==
    IF InputIgnored
    THEN /\ events' = <<>>
         /\ UNCHANGED <<engine, now>>
    ELSE /\ EnsureStarted
         /\ IF ch = "Backspace"
            THEN /\ currentInput' = DropLast(currentInput)
                 /\ events' = StartEvents \o
                        <<UpdateEvent(words, currentWordIndex, DropLast(currentInput))>>
                 /\ UNCHANGED <<typedChars, correctChars, wordHistory, currentWordIndex>>
            ELSE IF ch = " "
            THEN InputBody(Append(currentInput, ch), Append(currentInput, ch),
                           typedChars + 1, StartEvents)
            ELSE /\ currentInput' = Append(currentInput, ch)
                 /\ typedChars' = typedChars + 1
                 /\ events' = StartEvents \o
                        <<UpdateEvent(words, currentWordIndex, Append(currentInput, ch))>>
                 /\ UNCHANGED <<correctChars, wordHistory, currentWordIndex>>
         /\ UNCHANGED <<timeLimit, mode, words, finished, timeLeft, wpmHistory,
                        lastTickAt, best, storage, now>>

----------------------------------------------------------------------------
(* The wall clock *)

\* Date.now() advances; a due interval callback runs before time moves on
AdvanceClock ==
    /\ now < 1000 + MaxClockSteps * ClockStepMs
    /\ ~(historyInterval /\ now >= historyDue)
    /\ now' = now + ClockStepMs
    /\ UNCHANGED <<engine, events>>

----------------------------------------------------------------------------
(* Inputs offered by the caller *)

\* a step of the engine alone: its options, the page and the run store stay
EngineOnly == UNCHANGED <<config, page, dataStore>>

InputValues ==
    { <<>>, <<"a">>, <<"a", "b">>,
      <<" ">>, <<"a", " ">>, <<"a", "b", " ">>, <<"a", "a", " ">>, <<" ", "a", " ">> }

KeyInputs == { "Backspace", " ", "a" }

ModeInputs == { "english", "numbers", "quotes" }

\* the caller's countdown calls tick() at most once per interval (main.js)
TickOffered == now >= lastTickAt + tickIntervalMs

\* the time and mode selects
CallSetMode == \E m \in ModeInputs : SetMode(m)
CallSetTimeLimit == \E sec \in TimeLimits : SetTimeLimit(sec)

\* the countdown interval
CallTick == TickOffered /\ Tick

\* the input listener and raw key events
CallProcessInput == \E v \in InputValues : ProcessInput(v) /\ typedChars' <= MaxTyped
CallProcessKeystroke == \E ch \in KeyInputs : ProcessKeystroke(ch) /\ typedChars' <= MaxTyped

Next ==
    \/ ResetTest /\ EngineOnly
    \/ CallSetMode /\ EngineOnly
    \/ CallSetTimeLimit /\ EngineOnly
    \/ Start /\ EngineOnly
    \/ Finish /\ EngineOnly
    \/ CallTick /\ EngineOnly
    \/ HistoryTimerFire /\ EngineOnly
    \/ CallProcessInput /\ EngineOnly
    \/ CallProcessKeystroke /\ EngineOnly
    \/ AdvanceClock /\ EngineOnly

Spec == Init /\ [][Next]_vars

----------------------------------------------------------------------------
(* A run with bursts of tick() calls: the caller's cadence is not assumed,   *)
(* the limit is long enough that no tick ends the run, and one word is typed *)

HistoryLimit == 2

HistoryInput == <<"a", "b", " ">>

InitHistory == InitWith(HistoryLimit)

TypeHistoryInput == ProcessInput(HistoryInput) /\ typedChars' <= MaxTyped

NextHistory ==
    \/ ResetTest /\ EngineOnly
    \/ Start /\ EngineOnly
    \/ Finish /\ EngineOnly
    \/ Tick /\ EngineOnly
    \/ HistoryTimerFire /\ EngineOnly
    \/ TypeHistoryInput /\ EngineOnly
    \/ AdvanceClock /\ EngineOnly

SpecHistory == InitHistory /\ [][NextHistory]_vars

----------------------------------------------------------------------------
(* Typing one character at a time through processInput, with no deletion *)

GrowChars == { "a", "b", " " }

GrowInput(ch) == ProcessInput(Append(currentInput, ch))

CallGrowInput == \E ch \in GrowChars : GrowInput(ch) /\ typedChars' <= MaxTyped

NextGrow ==
    \/ ResetTest /\ EngineOnly
    \/ Start /\ EngineOnly
    \/ Finish /\ EngineOnly
    \/ CallTick /\ EngineOnly
    \/ HistoryTimerFire /\ EngineOnly
    \/ CallGrowInput /\ EngineOnly
    \/ AdvanceClock /\ EngineOnly

SpecGrow == Init /\ [][NextGrow]_vars

----------------------------------------------------------------------------
(* The metric queries over a long run: words are typed, the clock advances   *)
(* by whole seconds, the run may be finished, and the statistics are read    *)

MetricInputs == { <<"a">>, <<"a", " ">>, <<"a", "b", " ">> }

InitMetrics == InitWith(MetricSeconds)

TypeMetricInput == \E v \in MetricInputs : ProcessInput(v) /\ typedChars' <= MetricChars

\* one second passes; a due interval callback runs first; a snapshot read
\* earlier is no longer at hand
MetricsClock ==
    /\ now < 1000 + 1000 * MetricSeconds
    /\ ~(historyInterval /\ now >= historyDue)
    /\ now' = now + 1000
    /\ events' = <<>>
    /\ UNCHANGED engine

\* getStatsSnapshot: the returned object (its consistency field, a rounded
\* standard deviation of wpmHistory, is left out)
GetStatsSnapshot ==
    /\ events' = << [name |-> "getStatsSnapshot",
                     payload |-> [wpm |-> GetWPM,
                                  raw |-> GetRawSpeed,
                                  accuracy |-> GetAccuracy,
                                  typedChars |-> typedChars,
                                  correctChars |-> correctChars,
                                  timeLeft |-> timeLeft,
                                  elapsed |-> GetElapsedSeconds,
                                  best |-> best]] >>
    /\ UNCHANGED <<engine, now>>

NextMetrics ==
    \/ TypeMetricInput /\ EngineOnly
    \/ Finish /\ EngineOnly
    \/ HistoryTimerFire /\ EngineOnly
    \/ MetricsClock /\ EngineOnly
    \/ GetStatsSnapshot /\ EngineOnly

SpecMetrics == InitMetrics /\ [][NextMetrics]_vars

----------------------------------------------------------------------------
(* Construction with options, and the setters called with any argument: the  *)
(* constructor assigns its fields and then calls resetTest()                 *)

\* opts.timeLimit || 60
DefaultTimeLimit == 60

\* v || d for a number (0 and undefined are falsy) and for a string
NumberOr(v, d) == IF v = 0 THEN d ELSE v
StringOr(v, d) == IF v = "" THEN d ELSE v

\* the options offered: 0 and "" stand for an option that is not given
OptionTimeLimits == { 0 - 1, 0, 1 }
OptionModes == { "", "numbers", "quotes", "zen" }
\* opts.seedSize is always given: the default of 200 words is not exercised
OptionSeedSizes == { 1, 2 }
\* opts.words: not given, an empty array, a one-word array
OptionWords ==
    { [given |-> FALSE, value |-> <<>>],
      [given |-> TRUE, value |-> <<>>],
      [given |-> TRUE, value |-> << <<"b">> >>] }

\* opts.words || DEFAULT_WORDS: every array, the empty one too, is truthy
WordsOr(o, d) == IF o.given THEN o.value ELSE d

\* the constructor before its last statement, the call of resetTest()
FieldsAssigned(o) ==
    /\ timeLimit = NumberOr(o.timeLimit, DefaultTimeLimit)
    /\ mode = StringOr(o.mode, "english")
    /\ wordsPool = WordsOr(o.words, DEFAULT_WORDS)
    /\ seedSize = o.seedSize
    /\ words = <<>>
    /\ currentWordIndex = 0
    /\ currentInput = <<>>
    /\ startedAt = NULL
    /\ endedAt = NULL
    /\ started = FALSE
    /\ finished = FALSE
    /\ timeLeft = timeLimit
    /\ typedChars = 0
    /\ correctChars = 0
    /\ wordHistory = <<>>
    /\ wpmHistory = <<>>
    /\ lastTickAt = NULL
    /\ best = ZeroBest
    /\ storage = <<>>
    /\ historyInterval = FALSE
    /\ historyDue = NULL
    /\ now = 1000
    /\ events = <<>>
    /\ PageLoaded
    /\ EmptyStore

InitConfig ==
    \E o \in [timeLimit : OptionTimeLimits, mode : OptionModes,
               words : OptionWords, seedSize : OptionSeedSizes] : FieldsAssigned(o)

\* the constructor has returned: resetTest() has stamped lastTickAt
Constructed == lastTickAt # NULL

\* this.resetTest() at the end of the constructor: no callback is set yet
Construct ==
    /\ ~Constructed
    /\ ResetFields(mode, timeLimit)
    /\ events' = <<>>
    /\ UNCHANGED <<mode, timeLimit>>

\* arguments offered to the setters
ModeArguments == { "english", "numbers", "zen" }
LimitArguments == { 0 - 1, 0, 1 }

ConfigInput == <<"a">>

ConfigReset == Constructed /\ ResetTest
ConfigSetMode == Constructed /\ \E m \in ModeArguments : SetMode(m)
ConfigSetTimeLimit == Constructed /\ \E sec \in LimitArguments : SetTimeLimit(sec)
ConfigType == Constructed /\ ProcessInput(ConfigInput) /\ typedChars' <= MaxTyped
ConfigTick == Constructed /\ CallTick
ConfigClock == Constructed /\ AdvanceClock

NextConfig ==
    \/ Construct /\ EngineOnly
    \/ ConfigReset /\ EngineOnly
    \/ ConfigSetMode /\ EngineOnly
    \/ ConfigSetTimeLimit /\ EngineOnly
    \/ ConfigType /\ EngineOnly
    \/ ConfigTick /\ EngineOnly
    \/ HistoryTimerFire /\ EngineOnly
    \/ ConfigClock /\ EngineOnly

SpecConfig == InitConfig /\ [][NextConfig]_vars

----------------------------------------------------------------------------
(* The page (main.js): its handlers call the engine, and the engine's         *)
(* callbacks start and stop the countdown interval that calls tick()          *)

\* seconds of running time within which the runs of the page are followed
PageSeconds == 2
\* deferred clears of the field that can be waiting at once
MaxClears == 1
\* cap on typedChars and on the length of the field in the runs of the page
PageTyped == 2

\* setInterval(() => engine.tick(1), 1000)
UIIntervalMs == 1000

PageHorizon == 1000 + 1000 * PageSeconds

\* uiTimer, the interval it names and the intervals setInterval has running
TimerNow == [uiTimer |-> uiTimer, uiDue |-> uiDue, liveIntervals |-> liveIntervals]

SetTimer(t) ==
    /\ uiTimer' = t.uiTimer
    /\ uiDue' = t.uiDue
    /\ liveIntervals' = t.liveIntervals

\* startUITimer: if (uiTimer) return; uiTimer = setInterval(...)
StartUITimer(t) ==
    IF t.uiTimer THEN t
    ELSE [uiTimer |-> TRUE, uiDue |-> now + UIIntervalMs,
          liveIntervals |-> t.liveIntervals + 1]

\* mutant of StopUITimer: the interval is left running
StopUITimerNever(t) == t

\* stopUITimer: if (!uiTimer) return; clearInterval(uiTimer); uiTimer = null
StopUITimer(t) ==
    IF ~t.uiTimer THEN t
    ELSE [uiTimer |-> FALSE, uiDue |-> NULL, liveIntervals |-> t.liveIntervals - 1]

\* engine.onStart and engine.onFinish as wired by main.js; onTick and
\* onUpdateWordState only render
Callback(t, e) ==
    IF e.name = "onStart" THEN StartUITimer(t)
    ELSE IF e.name = "onFinish" THEN StopUITimer(t)
    ELSE t

\* the callbacks of one engine call, in the order the engine made them
RECURSIVE RunCallbacks(_, _)
RunCallbacks(t, ev) ==
    IF ev = <<>> THEN t ELSE RunCallbacks(Callback(t, Head(ev)), Tail(ev))

\* a step of the page: the engine's options and the run store stay
PageOnly == UNCHANGED <<config, dataStore>>

\* setTimeout(() => { el.hiddenInput.value = '' }, 0) after a value that ends
\* with a space
ClearsAfter(v) == IF EndsWithSpace(v) THEN clearTimeouts + 1 ELSE clearTimeouts

\* the input listener, run with the field holding v
InputListener(v) ==
    /\ hiddenInput' = v
    /\ ProcessInput(v)
    /\ clearTimeouts' = ClearsAfter(v)
    /\ SetTimer(RunCallbacks(TimerNow, events'))

\* keys the user types into the field
PageKeys == { "a", " " }

\* a run is started only while the followed time has room for all of it
RoomForRun == started \/ finished \/ now + 1000 * timeLimit <= PageHorizon

\* the user types a character: the field takes it and the input event fires
TypeKey ==
    /\ RoomForRun
    /\ Len(hiddenInput) < PageTyped
    /\ \E ch \in PageKeys : InputListener(Append(hiddenInput, ch))
    /\ typedChars' <= PageTyped
    /\ clearTimeouts' <= MaxClears

\* the Backspace key: the keydown listener calls processKeystroke('Backspace');
\* then the field deletes its last character and, if it had one, the input
\* listener runs with the shortened value
BackspaceKey ==
    /\ RoomForRun
    /\ IF hiddenInput = <<>>
       THEN /\ ProcessKeystroke("Backspace")
            /\ UNCHANGED <<hiddenInput, clearTimeouts>>
       ELSE LET v == DropLast(hiddenInput)
                input == DropLast(currentInput)
            IN  /\ hiddenInput' = v
                /\ clearTimeouts' = ClearsAfter(v)
                /\ IF InputIgnored
                   THEN /\ events' = <<>>
                        /\ UNCHANGED <<engine, now>>
                   ELSE /\ EnsureStarted
                        /\ InputBody(v, input, typedChars,
                               StartEvents \o <<UpdateEvent(words, currentWordIndex, input)>>)
                        /\ UNCHANGED <<timeLimit, mode, words, finished, timeLeft,
                                       wpmHistory, lastTickAt, best, storage, now>>
    /\ SetTimer(RunCallbacks(TimerNow, events'))
    /\ typedChars' <= PageTyped
    /\ clearTimeouts' <= MaxClears

\* a deferred clear of the field runs
ClearField ==
    /\ clearTimeouts > 0
    /\ hiddenInput' = <<>>
    /\ clearTimeouts' = clearTimeouts - 1
    /\ events' = <<>>
    /\ UNCHANGED <<engine, now, uiTimer, uiDue, liveIntervals>>

\* resetAndNewTest after its engine.resetTest(): the field is emptied and the
\* countdown stopped
NewTestPage ==
    /\ hiddenInput' = <<>>
    /\ SetTimer(StopUITimer(TimerNow))
    /\ UNCHANGED clearTimeouts

\* resetAndNewTest: the Escape key and the restart button
ResetAndNewTest == ResetTest /\ NewTestPage

\* the time select: engine.setTimeLimit(sec), then resetAndNewTest(), whose
\* resetTest() generates the words anew
TimeSelect ==
    \E sec \in TimeLimits :
        /\ timeLimit' = sec
        /\ ResetFields(mode, sec)
        /\ \E first \in GenerateWords(mode, seedSize) :
              events' = <<UpdateEvent(first, 0, <<>>), UpdateEvent(words', 0, <<>>)>>
        /\ UNCHANGED mode
        /\ NewTestPage

\* the mode select: engine.setMode(mode), then resetAndNewTest()
ModeSelect ==
    \E m \in ModeInputs :
        /\ mode' = m
        /\ ResetFields(m, timeLimit)
        /\ \E first \in GenerateWords(m, seedSize) :
              events' = <<UpdateEvent(first, 0, <<>>), UpdateEvent(words', 0, <<>>)>>
        /\ UNCHANGED timeLimit
        /\ NewTestPage

\* the countdown interval is due
UITimerDue == liveIntervals > 0 /\ uiDue # NULL /\ now >= uiDue

\* the countdown interval fires: engine.tick(1)
UITimerFire ==
    /\ UITimerDue
    /\ Tick
    /\ LET t == RunCallbacks(TimerNow, events')
       IN  SetTimer(IF t.liveIntervals > 0
                    THEN [t EXCEPT !.uiDue = uiDue + UIIntervalMs] ELSE t)
    /\ UNCHANGED <<hiddenInput, clearTimeouts>>

\* the engine's own sampling interval fires
PageHistoryTimer == HistoryTimerFire /\ UNCHANGED page

\* time passes during a run; interval callbacks that are due run first
PageClock ==
    /\ started
    /\ ~finished
    /\ now < PageHorizon
    /\ ~(historyInterval /\ now >= historyDue)
    /\ ~UITimerDue
    /\ now' = now + UIIntervalMs
    /\ UNCHANGED <<engine, events, page>>

InitPage == Init

NextPage ==
    \/ TypeKey /\ PageOnly
    \/ BackspaceKey /\ PageOnly
    \/ ClearField /\ PageOnly
    \/ ResetAndNewTest /\ PageOnly
    \/ TimeSelect /\ PageOnly
    \/ ModeSelect /\ PageOnly
    \/ UITimerFire /\ PageOnly
    \/ PageHistoryTimer /\ PageOnly
    \/ PageClock /\ PageOnly

SpecPage == InitPage /\ [][NextPage]_vars

\* the same page where time does pass during a run and the browser does run
\* the interval callbacks that are due
SpecPageLive ==
    /\ InitPage
    /\ [][NextPage]_vars
    /\ WF_vars(PageClock /\ PageOnly)
    /\ WF_vars(UITimerFire /\ PageOnly)
    /\ WF_vars(PageHistoryTimer /\ PageOnly)

----------------------------------------------------------------------------
(* The run store (data.js): the history of runs and the leaderboard, kept in  *)
(* memory and saved to localStorage after every change                        *)

\* runs the history and the leaderboard may hold before recordRun is no
\* longer offered
MaxRuns == 2

DEFAULT_MAX_HISTORY == 2000
DEFAULT_MAX_LEADERS == 200

\* ids, and the id 0 of a run that brings none
RunIds == { 1, 2 }
RunWpms == { 1, 2 }
RunAccuracies == { 1, 2 }
\* dates, and the date 0 of a run that brings none
RunDates == { 0, 1, 2 }

\* the argument of recordRun
RunInputs == [id : RunIds \cup { 0 }, wpm : RunWpms, accuracy : RunAccuracies,
              date : RunDates, mode : { "" }]

\* _makeRecord: id, date and mode fall back to a generated id, the current
\* time and 'english'
MakeRecord(run, generatedId, today) ==
    [id |-> NumberOr(run.id, generatedId),
     date |-> NumberOr(run.date, today),
     mode |-> StringOr(run.mode, "english"),
     wpm |-> run.wpm,
     accuracy |-> run.accuracy]

\* the leaderboard entry of a record
LeaderOf(rec) ==
    [id |-> rec.id, wpm |-> rec.wpm, accuracy |-> rec.accuracy,
     date |-> rec.date, mode |-> rec.mode]

\* the comparator of the two sort calls: negative when a goes before b
CompareLeaders(a, b) ==
    IF b.wpm # a.wpm THEN b.wpm - a.wpm
    ELSE IF b.accuracy # a.accuracy THEN b.accuracy - a.accuracy
    ELSE a.date - b.date

\* e put into the sorted list s behind the entries it does not go before
RECURSIVE InsertLeader(_, _)
InsertLeader(s, e) ==
    IF s = <<>> THEN <<e>>
    ELSE IF CompareLeaders(e, Head(s)) < 0 THEN <<e>> \o s
    ELSE <<Head(s)>> \o InsertLeader(Tail(s), e)

\* Array.prototype.sort with the comparator: a stable sort
RECURSIVE SortLeaders(_)
SortLeaders(s) ==
    IF s = <<>> THEN <<>>
    ELSE InsertLeader(SortLeaders(SubSeq(s, 1, Len(s) - 1)), s[Len(s)])

\* if (leaderboard.length > DEFAULT_MAX_LEADERS) leaderboard = leaderboard.slice(0, ...)
TrimLeaders(s) == IF Len(s) > DEFAULT_MAX_LEADERS THEN SubSeq(s, 1, DEFAULT_MAX_LEADERS) ELSE s

\* _insertLeaderboard: push, sort, trim
InsertLeaderboard(board, rec) == TrimLeaders(SortLeaders(Append(board, LeaderOf(rec))))

\* _pruneHistory: the newest DEFAULT_MAX_HISTORY runs are kept
PruneHistory(h) ==
    IF Len(h) > DEFAULT_MAX_HISTORY
    THEN SubSeq(h, Len(h) - DEFAULT_MAX_HISTORY + 1, Len(h)) ELSE h

\* _save: both lists are written to localStorage
Save ==
    /\ savedHistory' = history'
    /\ savedLeaders' = leaderboard'

\* a step of the store: the engine and the page stay
DataOnly == UNCHANGED <<engine, now, events, config, page>>

\* Data.recordRun(run)
RecordRun ==
    /\ Len(history) < MaxRuns
    /\ Len(leaderboard) < MaxRuns
    /\ \E run \in RunInputs, generatedId \in RunIds, today \in RunDates \ { 0 } :
          LET rec == MakeRecord(run, generatedId, today)
          IN  /\ history' = PruneHistory(Append(history, rec))
              /\ leaderboard' = InsertLeaderboard(leaderboard, rec)
    /\ Save

\* the entries of s with an id other than id
WithoutId(s, id) == LET Keep(r) == r.id # id IN SelectSeq(s, Keep)

\* Data.removeById(id)
RemoveById ==
    /\ \E id \in RunIds :
          /\ history' = WithoutId(history, id)
          /\ leaderboard' = WithoutId(leaderboard, id)
    /\ Save

\* Data.clearHistory()
ClearHistory ==
    /\ history' = <<>>
    /\ leaderboard' = <<>>
    /\ Save

\* runs as an exported file holds them
SlowRun == [id |-> 1, date |-> 1, mode |-> "english", wpm |-> 1, accuracy |-> 1]
FastRun == [id |-> 2, date |-> 2, mode |-> "english", wpm |-> 2, accuracy |-> 1]

\* what JSON.parse gives for the strings passed to import: a file as export()
\* writes it, a file whose leaderboard is in another order, an object without
\* the two lists, and a string that is not JSON
ImportPayloads ==
    { [json |-> TRUE, lists |-> TRUE,
       history |-> <<SlowRun, FastRun>>, leaderboard |-> <<FastRun, SlowRun>>],
      [json |-> TRUE, lists |-> TRUE,
       history |-> <<SlowRun, FastRun>>, leaderboard |-> <<SlowRun, FastRun>>],
      [json |-> TRUE, lists |-> FALSE, history |-> <<>>, leaderboard |-> <<>>],
      [json |-> FALSE, lists |-> FALSE, history |-> <<>>, leaderboard |-> <<>>] }

\* Array.isArray(x) ? x : []
ArrayOr(payload, list) == IF payload.lists THEN list ELSE <<>>

\* the ids of the entries of s
IdsOf(s) == { s[i].id : i \in 1..Len(s) }

\* the incoming entries whose id the list does not hold yet, pushed in order
MergeById(s, incoming) ==
    LET existingIds == IdsOf(s)
        IsNew(r) == r.id \notin existingIds
    IN  s \o SelectSeq(incoming, IsNew)

\* Data.import(jsonString, { merge })
Import ==
    \E payload \in ImportPayloads, merge \in BOOLEAN :
        IF ~payload.json
        THEN UNCHANGED dataStore
        ELSE LET incomingHistory == ArrayOr(payload, payload.history)
                 incomingLeaders == ArrayOr(payload, payload.leaderboard)
             IN  /\ IF ~merge
                    THEN /\ history' = PruneHistory(incomingHistory)
                         /\ leaderboard' = incomingLeaders
                    ELSE /\ history' = PruneHistory(MergeById(history, incomingHistory))
                         /\ leaderboard' = SortLeaders(MergeById(leaderboard, incomingLeaders))
                 /\ Save

InitData == Init

NextData ==
    \/ RecordRun /\ DataOnly
    \/ RemoveById /\ DataOnly
    \/ ClearHistory /\ DataOnly
    \/ Import /\ DataOnly

SpecData == InitData /\ [][NextData]_vars

\* the leaderboard is in the order of the comparator
LeadersSorted(s) == \A i \in 1..(Len(s) - 1) : CompareLeaders(s[i], s[i + 1]) <= 0

----------------------------------------------------------------------------
(* Derived notions used by the properties *)

\* the lifecycle of the session as given by the started and finished flags
Lifecycle == IF finished THEN "finished" ELSE IF started THEN "running" ELSE "idle"

EventNames(ev) == [i \in 1..Len(ev) |-> ev[i].name]

CountEvents(ev, n) == Cardinality({ i \in 1..Len(ev) : ev[i].name = n })

\* a step of processInput or processKeystroke with one of the offered inputs
InputStep ==
    \/ \E v \in InputValues : ProcessInput(v)
    \/ \E ch \in KeyInputs : ProcessKeystroke(ch)

\* a step that takes a sample: the interval callback, or a tick() past its guard
SampleStep ==
    \/ HistoryTimerFire
    \/ ~TickReturnsEarly /\ Tick

\* every sample of h is zero and there is at least one
ZerosOnly(h) == Len(h) > 0 /\ \A i \in 1..Len(h) : h[i] = 0

\* the state in which the last call was a reset and no time has passed since
JustReset ==
    /\ ~started
    /\ ~finished
    /\ EventNames(events) = <<"onUpdateWordState">>
    /\ lastTickAt = now

\* s is an initial part of t
IsPrefix(s, t) == Len(s) <= Len(t) /\ SubSeq(t, 1, Len(s)) = s

\* the credit a wordHistory entry stands for: its correct count, and one more
\* for the separator of a perfect word
EntryCredit(e) == e.correct + IF "perfect" \in DOMAIN e /\ e.perfect THEN 1 ELSE 0

RECURSIVE SumCredit(_)
SumCredit(h) == IF h = <<>> THEN 0 ELSE EntryCredit(Head(h)) + SumCredit(Tail(h))

RECURSIVE SumTyped(_)
SumTyped(h) == IF h = <<>> THEN 0 ELSE Len(Head(h).typed) + 1 + SumTyped(Tail(h))

----------------------------------------------------------------------------
(* Properties *)

\* C1: in every reachable state correctChars is at most typedChars.
C1_CorrectAtMostTyped == correctChars <= typedChars

\* C1 witness: a word was committed with full credit, the two counters equal.
C1_Witness == typedChars > 0 /\ correctChars = typedChars

\* C2: once the session is finished, typedChars and correctChars do not change
\* for as long as it stays finished (that is, until a reset).
C2_FinishedFreezesCounters ==
    [][finished /\ finished' => typedChars' = typedChars /\ correctChars' = correctChars]_vars

\* C2 witness: a finished session with typed characters on which a later
\* command was ignored (the last call delivered no notification).
C2_Witness == finished /\ ~started /\ typedChars > 0 /\ events = <<>>

\* C3 (as claimed): currentWordIndex never exceeds words.length.
C3_IndexWithinWords == currentWordIndex <= Len(words)

\* C4: wpmHistory holds at most HistoryCap entries, and a sample taken at
\* capacity removes the oldest entry and keeps the order of the others.
C4_HistoryBoundedFifo ==
    /\ [](Len(wpmHistory) <= HistoryCap)
    /\ [][SampleStep =>
            wpmHistory' = IF Len(wpmHistory) = HistoryCap
                          THEN Tail(wpmHistory) \o <<GetWPM>>
                          ELSE Append(wpmHistory, GetWPM)]_vars

\* C4 witness: the history is full and every warm-up zero has been evicted.
C4_Witness == Len(wpmHistory) = HistoryCap /\ wpmHistory[1] # 0

\* C5 (as claimed): every change of lifecycle is idle to running, running to
\* finished, or a return to idle.
C5_LifecycleTransitions ==
    [][Lifecycle' # Lifecycle =>
          \/ Lifecycle = "idle" /\ Lifecycle' = "running"
          \/ Lifecycle = "running" /\ Lifecycle' = "finished"
          \/ Lifecycle' = "idle"]_vars

\* C6 (as claimed): while the session stays finished no command changes the
\* session state or delivers a notification.
C6_FinishedCommandsAreNoOps ==
    [][finished /\ finished' => /\ UNCHANGED engine
                                /\ events' = <<>> \/ events' = events]_vars

\* C7 (as claimed): a committing processInput on a non-finished session, with
\* typed = value without its last character and target = words[currentWordIndex],
\* adds len(typed)+1 to typedChars, the stated credit to correctChars, advances
\* the cursor by one, clears the buffer and appends one entry.
C7_CommitDropsSeparatorOnly ==
    [][\A v \in InputValues :
          (~finished /\ EndsWithSpace(v) /\ currentWordIndex < Len(words) /\ ProcessInput(v)) =>
              LET typed == DropLast(v)
                  target == words[currentWordIndex + 1]
              IN  /\ typedChars' = typedChars + Len(typed) + 1
                  /\ correctChars' = correctChars +
                        (IF typed = target THEN Len(target) + 1
                         ELSE CountMatches(typed, target))
                  /\ currentWordIndex' = currentWordIndex + 1
                  /\ currentInput' = <<>>
                  /\ Len(wordHistory') = Len(wordHistory) + 1
                  /\ SubSeq(wordHistory', 1, Len(wordHistory)) = wordHistory
                  /\ wordHistory'[Len(wordHistory')].word = target
                  /\ wordHistory'[Len(wordHistory')].typed = typed]_vars

\* C7 (amended): the same with typed = value.trim() (all leading and trailing
\* spaces removed) and target = getCurrentWord() (the empty string past the end
\* of words).
C7_CommitTrimmed ==
    [][\A v \in InputValues :
          (~finished /\ EndsWithSpace(v) /\ ProcessInput(v)) =>
              LET typed == Trim(v)
                  target == GetCurrentWord
                  matches == Cardinality({ i \in 1..Min(Len(typed), Len(target)) :
                                             typed[i] = target[i] })
                  entry == wordHistory'[Len(wordHistory')]
              IN  /\ typedChars' = typedChars + Len(typed) + 1
                  /\ correctChars' = correctChars +
                        (IF typed = target THEN Len(target) + 1 ELSE matches)
                  /\ currentWordIndex' = currentWordIndex + 1
                  /\ currentInput' = <<>>
                  /\ Len(wordHistory') = Len(wordHistory) + 1
                  /\ SubSeq(wordHistory', 1, Len(wordHistory)) = wordHistory
                  /\ entry.word = target
                  /\ entry.typed = typed
                  /\ entry.correct = matches
                  /\ entry.perfect = (typed = target)]_vars

\* C7 witness: one word committed with partial credit (one matching position
\* out of a three-character commit).
C7_Witness ==
    /\ ~finished
    /\ Len(wordHistory) = 1
    /\ wordHistory[1].perfect = FALSE
    /\ wordHistory[1].correct = 1
    /\ typedChars = 3
    /\ correctChars = 1
    /\ currentWordIndex = 1
    /\ currentInput = <<>>

\* C8 (as claimed): when every token is typed through processInput one
\* character at a time with no deletion, typedChars counts each submitted
\* character once: len(token)+1 per committed token plus the current buffer.
C8_TypedCountsEachCharOnce ==
    ~finished => typedChars = SumTyped(wordHistory) + Len(currentInput)

\* C9: a non-committing processInput on a non-finished session adds
\* max(0, len(value) - len(currentInput)) to typedChars, replaces the buffer and
\* leaves correctChars, currentWordIndex and wordHistory alone; typedChars
\* never decreases.
C9_NonCommitInput ==
    [][\A v \in InputValues :
          (~finished /\ ~EndsWithSpace(v) /\ ProcessInput(v)) =>
              /\ typedChars' = typedChars + Max(0, Len(v) - Len(currentInput))
              /\ typedChars' >= typedChars
              /\ currentInput' = v
              /\ UNCHANGED <<correctChars, currentWordIndex, wordHistory>>]_vars

\* C9 witness: the buffer was shortened after two characters were typed and the
\* counter kept both.
C9_Witness ==
    /\ ~finished
    /\ currentWordIndex = 0
    /\ wordHistory = <<>>
    /\ currentInput = <<"a">>
    /\ typedChars = 2

\* C10: an idle session has no start stamp and no elapsed time; the first input
\* on an idle session starts the run (start stamp, sampling, one onStart
\* delivered before the word-state notification); inputs on a running session
\* leave the start stamp alone and deliver no onStart.
C10_TypingStartsClock ==
    /\ [](Lifecycle = "idle" => startedAt = NULL /\ GetElapsedSeconds = 0)
    /\ [][(Lifecycle = "idle" /\ InputStep) =>
             /\ started' /\ startedAt' = now /\ historyInterval'
             /\ CountEvents(events', "onStart") = 1
             /\ events'[1].name = "onStart"]_vars
    /\ [][(Lifecycle = "running" /\ InputStep) =>
             /\ startedAt' = startedAt
             /\ CountEvents(events', "onStart") = 0]_vars

\* C10 witness: a running session, half a second or more after its start, whose
\* last input delivered the word-state notification only.
C10_Witness ==
    /\ Lifecycle = "running"
    /\ startedAt # NULL /\ startedAt < now
    /\ currentInput # <<>>
    /\ EventNames(events) = <<"onUpdateWordState">>

\* C11: a tick() on a running session sets timeLeft to
\* max(0, timeLimit - floor(seconds since startedAt)), delivers exactly one
\* onTick {timeLeft, elapsed, wpm} and finishes the run if and only if timeLeft
\* is 0; that onTick precedes the onFinish, and no tick finishes the run while
\* the floored elapsed seconds are below timeLimit.
C11_TickOnRunning ==
    [][(started /\ ~finished /\ Tick) =>
          LET secs == (now - startedAt) \div 1000
          IN  /\ timeLeft' = IF timeLimit - secs > 0 THEN timeLimit - secs ELSE 0
              /\ CountEvents(events', "onTick") = 1
              /\ events'[1].name = "onTick"
              /\ DOMAIN events'[1].payload = {"timeLeft", "elapsed", "wpm"}
              /\ events'[1].payload.timeLeft = timeLeft'
              /\ events'[1].payload.elapsed = secs
              /\ (finished' <=> timeLeft' = 0)
              /\ EventNames(events') =
                     IF timeLeft' = 0 THEN <<"onTick", "onFinish">> ELSE <<"onTick">>
              /\ (secs < timeLimit => ~finished')]_vars

\* C11 witness: a tick found the time used up, reported timeLeft 0 and then
\* finished the run.
C11_Witness ==
    /\ finished
    /\ timeLeft = 0
    /\ EventNames(events) = <<"onTick", "onFinish">>
    /\ events[1].payload.timeLeft = 0

C13_FinishFiresOnce ==
    /\ [][(now' = now /\ CountEvents(events', "onFinish") > 0) =>
             /\ ~finished
             /\ finished'
             /\ CountEvents(events', "onFinish") = 1]_vars
    /\ [][(finished /\ ~finished') =>
             /\ ~started'
             /\ typedChars' = 0
             /\ CountEvents(events', "onFinish") = 0]_vars
    /\ [][(finished /\ Finish) => (events' = <<>> /\ UNCHANGED engine)]_vars
    /\ [][(finished /\ Tick) => CountEvents(events', "onFinish") = 0]_vars

\* C13 witness: finish() or tick() was called on a session finished earlier
\* and delivered nothing.
C13_Witness ==
    /\ finished
    /\ events = <<>>
    /\ endedAt # NULL
    /\ endedAt < now

\* C14: every onFinish payload carries wpm, accuracy and raw together with the
\* sample history (wpmHistory) of the run.
C14_FinishPayloadCarriesHistory ==
    \A i \in 1..Len(events) :
        events[i].name = "onFinish" =>
            LET p == events[i].payload
            IN  /\ {"wpm", "accuracy", "raw"} \subseteq DOMAIN p
                /\ "history" \in DOMAIN p
                /\ p.history = wpmHistory

C16_ResetPostState ==
    /\ [][ResetTest =>
             /\ currentWordIndex' = 0
             /\ currentInput' = <<>>
             /\ typedChars' = 0
             /\ correctChars' = 0
             /\ wordHistory' = <<>>
             /\ ZerosOnly(wpmHistory')
             /\ startedAt' = NULL
             /\ endedAt' = NULL
             /\ timeLeft' = timeLimit
             /\ timeLimit' = timeLimit
             /\ Lifecycle' = "idle"]_vars
    /\ [][(JustReset /\ ResetTest) =>
             UNCHANGED <<timeLimit, mode, currentWordIndex, currentInput, startedAt,
                         endedAt, started, finished, timeLeft, typedChars,
                         correctChars, wordHistory, wpmHistory, lastTickAt, best,
                         storage, historyInterval, historyDue, now>>]_vars

\* C16 witness: a reset has just discarded a session that had scored a best
\* result, some time after construction.
C16_Witness ==
    /\ JustReset
    /\ best.wpm > 0
    /\ typedChars = 0
    /\ wordHistory = <<>>
    /\ now > 1000

\* C17: setMode(m) and setTimeLimit(t), in any lifecycle state, store the
\* field and discard the run: right after the call the lifecycle is idle,
\* words is a fresh draw for the mode in force, every accumulator is zero and
\* the sampling timer is stopped; the wpmHistory of an idle session holds the
\* seed zeros only, whatever time has passed.
C17_SettersDiscardRun ==
    /\ [][\A m \in ModeInputs :
             SetMode(m) =>
                 /\ mode' = m
                 /\ timeLimit' = timeLimit
                 /\ Lifecycle' = "idle"
                 /\ words' \in GenerateWords(m, seedSize)
                 /\ currentWordIndex' = 0
                 /\ currentInput' = <<>>
                 /\ typedChars' = 0
                 /\ correctChars' = 0
                 /\ wordHistory' = <<>>
                 /\ ZerosOnly(wpmHistory')
                 /\ ~historyInterval']_vars
    /\ [][\A t \in TimeLimits :
             SetTimeLimit(t) =>
                 /\ timeLimit' = t
                 /\ timeLeft' = t
                 /\ mode' = mode
                 /\ Lifecycle' = "idle"
                 /\ words' \in GenerateWords(mode, seedSize)
                 /\ currentWordIndex' = 0
                 /\ currentInput' = <<>>
                 /\ typedChars' = 0
                 /\ correctChars' = 0
                 /\ wordHistory' = <<>>
                 /\ ZerosOnly(wpmHistory')
                 /\ ~historyInterval']_vars
    /\ [](Lifecycle = "idle" => (~historyInterval /\ ZerosOnly(wpmHistory)))

\* C17 witness: the mode was changed some time after construction, and later
\* still the new session is idle with its seed samples only.
C17_Witness ==
    /\ Lifecycle = "idle"
    /\ mode = "numbers"
    /\ EventNames(events) = <<"onUpdateWordState">>
    /\ lastTickAt > 1000
    /\ now > lastTickAt
    /\ wpmHistory = WarmHistory

\* C19: in every state processKeystroke(' ') leaves typedChars, correctChars,
\* currentWordIndex, currentInput and wordHistory as processInput(currentInput
\* + ' ') would leave them from that state.
C19_SeparatorKeyIsCommit ==
    [][ProcessKeystroke(" ") =>
          IF finished
          THEN UNCHANGED <<typedChars, correctChars, currentWordIndex, currentInput,
                           wordHistory>>
          ELSE LET typed == Trim(Append(currentInput, " "))
                   target == GetCurrentWord
               IN  /\ typedChars' = typedChars + TypedIncrement(typed)
                   /\ correctChars' = correctChars + CorrectIncrement(typed, target)
                   /\ currentWordIndex' = currentWordIndex + 1
                   /\ currentInput' = <<>>
                   /\ wordHistory' = Append(wordHistory, CommitEntry(typed, target))]_vars

\* C20 as stated, for every session state: processKeystroke('Backspace')
\* removes the last character of currentInput (an empty buffer stays empty),
\* delivers onUpdateWordState and leaves typedChars, correctChars,
\* currentWordIndex and wordHistory unchanged; any other character than the
\* separator is appended to currentInput and adds exactly 1 to typedChars.
C20_KeystrokeEffects ==
    [][\A ch \in KeyInputs :
          ProcessKeystroke(ch) =>
              IF ch = "Backspace"
              THEN /\ currentInput' = [i \in 1..(Len(currentInput) - 1) |-> currentInput[i]]
                   /\ CountEvents(events', "onUpdateWordState") = 1
                   /\ UNCHANGED <<typedChars, correctChars, currentWordIndex, wordHistory>>
              ELSE IF ch # " "
              THEN /\ currentInput' = currentInput \o <<ch>>
                   /\ typedChars' = typedChars + 1
              ELSE TRUE]_vars

\* C20 amended: the same effects on a session that is not finished; on a
\* finished session the call changes nothing and notifies nobody.
C20_KeystrokeEffectsUnlessFinished ==
    [][\A ch \in KeyInputs :
          ProcessKeystroke(ch) =>
              IF finished
              THEN events' = <<>> /\ UNCHANGED engine
              ELSE IF ch = "Backspace"
              THEN /\ currentInput' = [i \in 1..(Len(currentInput) - 1) |-> currentInput[i]]
                   /\ CountEvents(events', "onUpdateWordState") = 1
                   /\ UNCHANGED <<typedChars, correctChars, currentWordIndex, wordHistory>>
              ELSE IF ch # " "
              THEN /\ currentInput' = currentInput \o <<ch>>
                   /\ typedChars' = typedChars + 1
                   /\ CountEvents(events', "onUpdateWordState") = 1
                   /\ UNCHANGED <<correctChars, currentWordIndex, wordHistory>>
              ELSE TRUE]_vars

\* C20 witness: on a running session one character was typed and then deleted;
\* the buffer is empty again and the counter kept the character.
C20_Witness ==
    /\ started
    /\ ~finished
    /\ currentInput = <<>>
    /\ typedChars = 1
    /\ correctChars = 0
    /\ wordHistory = <<>>
    /\ EventNames(events) = <<"onUpdateWordState">>

\* C18: every statistics snapshot reports elapsed = 0 before the start,
\* floor((endedAt - startedAt) / 1000) once finished and the floored seconds
\* since startedAt otherwise; wpm = round((correctChars / 5) / (elapsed / 60))
\* and raw = round((typedChars / 5) / (elapsed / 60)), both 0 when elapsed <= 0;
\* accuracy = round(correctChars / typedChars * 100), and 100 when typedChars
\* is 0. A value r is round(n / d) when r - 1/2 <= n / d < r + 1/2.
C18_MetricFormulas ==
    \A i \in 1..Len(events) :
        events[i].name = "getStatsSnapshot" =>
            LET p == events[i].payload
                elapsed == IF startedAt = NULL THEN 0
                           ELSE IF finished THEN (endedAt - startedAt) \div 1000
                           ELSE (now - startedAt) \div 1000
                IsRound(r, n, d) == 2 * d * r - d <= 2 * n /\ 2 * n < 2 * d * r + d
            IN  /\ p.elapsed = elapsed
                /\ IF elapsed <= 0
                   THEN p.wpm = 0 /\ p.raw = 0
                   ELSE /\ IsRound(p.wpm, 12 * correctChars, elapsed)
                        /\ IsRound(p.raw, 12 * typedChars, elapsed)
                /\ IF typedChars = 0
                   THEN p.accuracy = 100
                   ELSE IsRound(p.accuracy, 100 * correctChars, typedChars)

\* C21: in every reachable state mode is one of english, numbers, quotes; a
\* setMode with an identifier outside them leaves the session in the default
\* mode, english, with words generated as that mode generates them.
C21_UnknownModeFallsBack ==
    /\ [](mode \in ModeInputs)
    /\ [][\A m \in ModeArguments \ ModeInputs :
              SetMode(m) => /\ mode' = "english"
                            /\ words' \in GenerateWords("english", seedSize)]_vars

\* C22: in every reachable state timeLimit is at least 1.
C22_TimeLimitPositive == timeLimit >= 1

\* C23: the constructor's resetTest() returns for every option set, resetTest,
\* setMode and setTimeLimit return from every state of a constructed session,
\* and a constructed session holds at least seedSize words.
C23_OperationsReturn ==
    /\ ~Constructed => ENABLED Construct
    /\ Constructed =>
          /\ ENABLED ResetTest
          /\ \A m \in ModeArguments : ENABLED SetMode(m)
          /\ \A sec \in LimitArguments : ENABLED SetTimeLimit(sec)
          /\ Len(words) >= seedSize

\* C24: in a running session of the page, once the callbacks due at the
\* current time have run, wpmHistory holds its five seed samples and one
\* sample per elapsed 1-second interval (at most 120 in all); and a tick()
\* that passes its guard leaves wpmHistory as it was.
C24_OneSamplePerInterval ==
    /\ [](started /\ ~finished /\ ~UITimerDue /\ ~(historyInterval /\ now >= historyDue)
             => Len(wpmHistory) = Min(HistoryCap, WarmPoints + FloorSeconds(startedAt, now)))
    /\ [][~TickReturnsEarly /\ Tick => wpmHistory' = wpmHistory]_vars

\* C26: after every handler and timer callback of the page, uiTimer is set
\* exactly when the engine is running, the intervals set and not cleared are
\* one when uiTimer is set and none otherwise, and the countdown interval
\* never calls tick() on a session that is idle or finished.
C26_CountdownInLockstep ==
    /\ [](/\ uiTimer <=> (started /\ ~finished)
          /\ liveIntervals = IF uiTimer THEN 1 ELSE 0)
    /\ [][UITimerFire => ~TickReturnsEarly]_vars

\* C26 witness: the countdown's tick has just ended a run, and onFinish
\* stopped the interval.
C26_Witness ==
    /\ finished
    /\ EventNames(events) = <<"onTick", "onFinish">>
    /\ ~uiTimer
    /\ liveIntervals = 0

\* C27: a running session with a positive timeLimit, on a page where time
\* passes and the countdown keeps calling tick(), leads to a session that is
\* finished with onFinish delivered, or to a session that was reset.
C27_RunEventuallyEnds ==
    (started /\ ~finished /\ timeLimit >= 1)
        ~> \/ finished /\ CountEvents(events, "onFinish") = 1
           \/ ~started /\ ~finished

\* C27 witness: a run of two seconds was ended by the countdown when its time
\* was used up.
C27_Witness ==
    /\ finished
    /\ timeLimit = 2
    /\ timeLeft = 0
    /\ FloorSeconds(startedAt, endedAt) = timeLimit
    /\ CountEvents(events, "onFinish") = 1

\* C29: on the page no input event reaches the engine while a deferred clear
\* of the field is still waiting, and whenever no clear is waiting the field
\* holds exactly the engine's currentInput.
C29_FieldClearedBeforeNextInput ==
    /\ [][(\E ch \in PageKeys : InputListener(Append(hiddenInput, ch)))
             => clearTimeouts = 0]_vars
    /\ [](clearTimeouts = 0 => hiddenInput = currentInput)

\* C25: a step that is not a reset keeps every wordHistory entry and appends
\* at most one; a step that commits a word appends exactly one; so while the
\* session is not finished wordHistory has currentWordIndex entries, and once
\* it is finished it has that many or one more.
C25_WordHistoryAppendOnly ==
    /\ [][~JustReset' => /\ IsPrefix(wordHistory, wordHistory')
                         /\ Len(wordHistory') <= Len(wordHistory) + 1]_vars
    /\ [][currentWordIndex' = currentWordIndex + 1
             => Len(wordHistory') = Len(wordHistory) + 1]_vars
    /\ [](~finished => Len(wordHistory) = currentWordIndex)
    /\ [](finished => /\ Len(wordHistory) >= currentWordIndex
                      /\ Len(wordHistory) <= currentWordIndex + 1)

\* C25 witness: a run with one committed word was finished with a partly
\* typed word, and finish() was then called again.
C25_Witness ==
    /\ finished
    /\ currentWordIndex = 1
    /\ Len(wordHistory) = 2
    /\ wordHistory[2].typed = currentInput
    /\ events = <<>>

\* C28: in every reachable state correctChars is the sum over wordHistory of
\* each entry's correct count, plus 1 for each perfect entry; the entry
\* finish() adds for an uncommitted word counts 0.
C28_CreditMatchesHistory == correctChars = SumCredit(wordHistory)

\* C28 witness: a perfect word with its separator credit, then a finish with a
\* partly typed word whose entry adds nothing.
C28_Witness ==
    /\ finished
    /\ Len(wordHistory) = 2
    /\ wordHistory[1].perfect
    /\ wordHistory[2].correct = 0
    /\ Len(wordHistory[2].typed) > 0
    /\ correctChars = Len(wordHistory[1].word) + 1

\* C30: after any sequence of recordRun, removeById, clearHistory and import
\* from an empty store, the leaderboard is sorted by wpm descending, then
\* accuracy descending, then date ascending, and holds at most 200 entries.
C30_LeaderboardSortedAndCapped ==
    /\ LeadersSorted(leaderboard)
    /\ Len(leaderboard) <= DEFAULT_MAX_LEADERS

====
